---- MODULE Spec2Model ----
(***************************************************************************)
(* Model of md_codeblock_converter.py: the conversion of indented markdown *)
(* code blocks into fenced code blocks.                                    *)
(*                                                                         *)
(* A text (Python str) is a sequence of one-character strings; a list of   *)
(* lines is a sequence of texts.  str.split, str.join, str.strip and the   *)
(* two regular expressions are computed character by character.            *)
(***************************************************************************)
EXTENDS Integers, Sequences, FiniteSets, TLC

VARIABLES
    content,    \* the text the caller passes to the converter
    op,         \* the method the caller has called last
    ret,        \* the value that call returned
    again,      \* what convert_to_fenced_blocks returned for its own output
    files,      \* the texts of the markdown files of the directory, in sorted order
    pc,         \* where process_all_files is: "idle", "loop" or "done"
    idx,        \* the place in markdown_files of the file the loop takes next
    processed_count,
    error_count,
    results,    \* the dict process_all_files returns
    pf,         \* the last call of process_file
    failed,     \* the files whose processing has raised an exception
    path_kind,  \* what the path given to the constructor names
    directory,  \* the entries of the directory, in sorted order
    converter,  \* "none", "constructed", or "ValueError" when __init__ raised
    markdown_files, \* the places in the directory of the files found
    modified,   \* the files for which process_file has returned True
    calls       \* the calls of the core methods in progress, with their locals

coreVars == <<content, op, ret, again>>

fileVars == <<files, pc, idx, processed_count, error_count, results, pf, failed>>

dirVars == <<path_kind, directory, converter, markdown_files, modified>>

vars == <<content, op, ret, again, files, pc, idx, processed_count,
          error_count, results, pf, failed, path_kind, directory, converter,
          markdown_files, modified, calls>>

(***************************************************************************)
(* Characters                                                              *)
(***************************************************************************)
SP == " "
TAB == "\t"
NL == "\n"
\* stands for the backquote, which a TLA+ string cannot hold
BT == "~"

\* Python's None (frontmatter_start, frontmatter_end, current_block_start)
None == -1

(***************************************************************************)
(* Bounds of the model                                                     *)
(***************************************************************************)
\* largest number of lines of a document
MaxLines == 4

\* largest number of markdown files in the directory
MaxFiles == 3

\* largest number of lines of a document whose blocks are detected
MaxBlockLines == 4

\* largest number of lines of a document that is scanned line by line
MaxScanLines == 3

\* largest number of lines of the file given to the dry run and to process_file
MaxDryRunLines == 3

(***************************************************************************)
(* The lines documents are made of                                         *)
(***************************************************************************)
S4 == <<SP, SP, SP, SP>>
Fence == <<BT, BT, BT>>
Plus3 == <<"+", "+", "+">>
Dash3 == <<"-", "-", "-">>

Vocab ==
    { << >>,                    \* empty line
      S4,                       \* whitespace-only line of four spaces
      <<SP, "a">>,              \* prose, indented by less than four spaces
      S4 \o <<"a">>,            \* code indented by four spaces
      <<TAB, "a">>,             \* code indented by a tab
      S4 \o <<TAB, "a">>,       \* code with nested indentation
      Fence,                    \* fence marker
      S4 \o Fence,              \* indented fence marker
      Plus3,                    \* TOML delimiter
      Dash3 \o <<SP>> }         \* YAML delimiter with trailing space

(***************************************************************************)
(* str.split('\n') and '\n'.join                                           *)
(***************************************************************************)
RECURSIVE SplitFrom(_, _, _)
\* lines of text s from position i on, cur being the line read so far
SplitFrom(s, i, cur) ==
    IF i > Len(s) THEN <<cur>>
    ELSE IF s[i] = NL THEN <<cur>> \o SplitFrom(s, i + 1, << >>)
    ELSE SplitFrom(s, i + 1, Append(cur, s[i]))

Split(s) == SplitFrom(s, 1, << >>)

RECURSIVE Join(_)
Join(ls) ==
    IF Len(ls) = 0 THEN << >>
    ELSE IF Len(ls) = 1 THEN ls[1]
    ELSE ls[1] \o <<NL>> \o Join(Tail(ls))

(***************************************************************************)
(* str.strip, str.startswith and the regular expressions                   *)
(***************************************************************************)
IsSpace(c) == c \in {SP, TAB, NL}

RECURSIVE LStrip(_)
LStrip(s) == IF Len(s) > 0 /\ IsSpace(s[1]) THEN LStrip(Tail(s)) ELSE s

RECURSIVE RStrip(_)
RStrip(s) ==
    IF Len(s) > 0 /\ IsSpace(s[Len(s)]) THEN RStrip(SubSeq(s, 1, Len(s) - 1)) ELSE s

Strip(s) == RStrip(LStrip(s))

StartsWith(s, p) == Len(s) >= Len(p) /\ SubSeq(s, 1, Len(p)) = p

\* the fence test without the strip
IsFenceMarkerNoStrip(line) == StartsWith(line, Fence)

\* re.match of three backquotes at the start of line.strip()
IsFenceMarker(line) == StartsWith(Strip(line), Fence)

\* re.match(r'^(    |\t+)', line)
IsIndented(line) == StartsWith(line, S4) \/ StartsWith(line, <<TAB>>)

\* line.strip() == ''
IsBlank(line) == Strip(line) = << >>

(***************************************************************************)
(* detect_frontmatter_boundaries                                           *)
(***************************************************************************)
RECURSIVE FirstClosingEither(_, _, _)
\* a closing search that accepts either delimiter
FirstClosingEither(lines, from, delim) ==
    IF from >= Len(lines) THEN None
    ELSE IF Strip(lines[from + 1]) \in {Plus3, Dash3} THEN from
    ELSE FirstClosingEither(lines, from + 1, delim)

RECURSIVE FirstClosing(_, _, _)
\* the loop "for i, line in enumerate(lines[1:], 1)": the first index i >= from
\* (0-based) whose line strips to delim, or None
FirstClosing(lines, from, delim) ==
    IF from >= Len(lines) THEN None
    ELSE IF Strip(lines[from + 1]) = delim THEN from
    ELSE FirstClosing(lines, from + 1, delim)

DetectFrontmatterBoundaries(text) ==
    LET lines == Split(text)
        closing ==
            IF Strip(lines[1]) = Plus3 THEN FirstClosing(lines, 1, Plus3)
            ELSE IF Strip(lines[1]) = Dash3 THEN FirstClosing(lines, 1, Dash3)
            ELSE None
    IN  IF Len(lines) = 0 THEN <<None, None>>
        ELSE IF closing = None THEN <<None, None>>
        ELSE <<0, closing>>

(***************************************************************************)
(* detect_indented_code_blocks                                             *)
(***************************************************************************)
\* the scanner's local variables before the loop
ScanInit ==
    [code_blocks |-> << >>,
     current_block_start |-> None,
     current_block_lines |-> << >>,
     in_fenced_block |-> FALSE]

RECURSIVE PopTrailingBlank(_)
\* while current_block_lines and current_block_lines[-1].strip() == '': pop()
PopTrailingBlank(ls) ==
    IF Len(ls) > 0 /\ IsBlank(ls[Len(ls)])
    THEN PopTrailingBlank(SubSeq(ls, 1, Len(ls) - 1))
    ELSE ls

\* a trim-and-insert that puts the new block first
FinalizePrepend(st) ==
    LET kept == PopTrailingBlank(st.current_block_lines)
    IN  IF Len(kept) > 0
        THEN <<<<st.current_block_start,
                 st.current_block_start + Len(kept) - 1,
                 Join(kept)>>>> \o st.code_blocks
        ELSE st.code_blocks

\* an append of the block as accumulated, trailing blank lines and all
FinalizeUntrimmed(st) ==
    Append(st.code_blocks,
           <<st.current_block_start,
             st.current_block_start + Len(st.current_block_lines) - 1,
             Join(st.current_block_lines)>>)

\* a trim-and-append whose end_line counts the lines popped
FinalizeUntrimmedEnd(st) ==
    LET kept == PopTrailingBlank(st.current_block_lines)
    IN  IF Len(kept) > 0
        THEN Append(st.code_blocks,
                    <<st.current_block_start,
                      st.current_block_start + Len(st.current_block_lines) - 1,
                      Join(kept)>>)
        ELSE st.code_blocks

\* the trim-and-append of an open block
Finalize(st) ==
    LET kept == PopTrailingBlank(st.current_block_lines)
    IN  IF Len(kept) > 0
        THEN Append(st.code_blocks,
                    <<st.current_block_start,
                      st.current_block_start + Len(kept) - 1,
                      Join(kept)>>)
        ELSE st.code_blocks

\* an iteration that tests the indentation before the fence marker
ScanStepIndentFirst(st, i, line, fm) ==
    IF fm[1] # None /\ fm[1] <= i /\ i <= fm[2] THEN st
    ELSE IF ~st.in_fenced_block /\ IsIndented(line)
    THEN IF st.current_block_start = None
         THEN [st EXCEPT !.current_block_start = i,
                         !.current_block_lines = <<line>>]
         ELSE [st EXCEPT !.current_block_lines = Append(@, line)]
    ELSE IF IsFenceMarker(line)
    THEN [st EXCEPT !.in_fenced_block = ~st.in_fenced_block,
                    !.current_block_start = None,
                    !.current_block_lines = << >>]
    ELSE IF st.in_fenced_block THEN st
    ELSE IF IsBlank(line) /\ st.current_block_start # None
    THEN [st EXCEPT !.current_block_lines = Append(@, line)]
    ELSE IF st.current_block_start # None
    THEN [st EXCEPT !.code_blocks = Finalize(st),
                    !.current_block_start = None,
                    !.current_block_lines = << >>]
    ELSE st

\* an iteration that keeps the open block at a fence marker
ScanStepKeepOnFence(st, i, line, fm) ==
    IF fm[1] # None /\ fm[1] <= i /\ i <= fm[2] THEN st
    ELSE IF IsFenceMarker(line)
    THEN [st EXCEPT !.in_fenced_block = ~st.in_fenced_block]
    ELSE IF st.in_fenced_block THEN st
    ELSE IF IsIndented(line) \/ (IsBlank(line) /\ st.current_block_start # None)
    THEN IF st.current_block_start = None
         THEN [st EXCEPT !.current_block_start = i,
                         !.current_block_lines = <<line>>]
         ELSE [st EXCEPT !.current_block_lines = Append(@, line)]
    ELSE IF st.current_block_start # None
    THEN [st EXCEPT !.code_blocks = Finalize(st),
                    !.current_block_start = None,
                    !.current_block_lines = << >>]
    ELSE st

\* an iteration that tests the fence marker before the frontmatter
ScanStepFenceFirst(st, i, line, fm) ==
    IF IsFenceMarker(line)
    THEN [st EXCEPT !.in_fenced_block = ~st.in_fenced_block,
                    !.current_block_start = None,
                    !.current_block_lines = << >>]
    ELSE IF fm[1] # None /\ fm[1] <= i /\ i <= fm[2] THEN st
    ELSE IF st.in_fenced_block THEN st
    ELSE IF IsIndented(line) \/ (IsBlank(line) /\ st.current_block_start # None)
    THEN IF st.current_block_start = None
         THEN [st EXCEPT !.current_block_start = i,
                         !.current_block_lines = <<line>>]
         ELSE [st EXCEPT !.current_block_lines = Append(@, line)]
    ELSE IF st.current_block_start # None
    THEN [st EXCEPT !.code_blocks = Finalize(st),
                    !.current_block_start = None,
                    !.current_block_lines = << >>]
    ELSE st

\* an iteration that emits the open block at a fence marker
ScanStepEmitOnFence(st, i, line, fm) ==
    IF fm[1] # None /\ fm[1] <= i /\ i <= fm[2] THEN st
    ELSE IF IsFenceMarker(line)
    THEN [st EXCEPT !.in_fenced_block = ~st.in_fenced_block,
                    !.code_blocks =
                        IF st.current_block_start # None THEN Finalize(st) ELSE @,
                    !.current_block_start = None,
                    !.current_block_lines = << >>]
    ELSE IF st.in_fenced_block THEN st
    ELSE IF IsIndented(line) \/ (IsBlank(line) /\ st.current_block_start # None)
    THEN IF st.current_block_start = None
         THEN [st EXCEPT !.current_block_start = i,
                         !.current_block_lines = <<line>>]
         ELSE [st EXCEPT !.current_block_lines = Append(@, line)]
    ELSE IF st.current_block_start # None
    THEN [st EXCEPT !.code_blocks = Finalize(st),
                    !.current_block_start = None,
                    !.current_block_lines = << >>]
    ELSE st

\* an iteration in which a blank line does not extend the block
ScanStepBlankEnds(st, i, line, fm) ==
    IF fm[1] # None /\ fm[1] <= i /\ i <= fm[2] THEN st
    ELSE IF IsFenceMarker(line)
    THEN [st EXCEPT !.in_fenced_block = ~st.in_fenced_block,
                    !.current_block_start = None,
                    !.current_block_lines = << >>]
    ELSE IF st.in_fenced_block THEN st
    ELSE IF IsIndented(line)
    THEN IF st.current_block_start = None
         THEN [st EXCEPT !.current_block_start = i,
                         !.current_block_lines = <<line>>]
         ELSE [st EXCEPT !.current_block_lines = Append(@, line)]
    ELSE IF st.current_block_start # None
    THEN [st EXCEPT !.code_blocks = Finalize(st),
                    !.current_block_start = None,
                    !.current_block_lines = << >>]
    ELSE st

\* an iteration that does not skip the lines inside a fence
ScanStepNoFenceSkip(st, i, line, fm) ==
    IF fm[1] # None /\ fm[1] <= i /\ i <= fm[2] THEN st
    ELSE IF IsFenceMarker(line)
    THEN [st EXCEPT !.in_fenced_block = ~st.in_fenced_block,
                    !.current_block_start = None,
                    !.current_block_lines = << >>]
    ELSE IF IsIndented(line) \/ (IsBlank(line) /\ st.current_block_start # None)
    THEN IF st.current_block_start = None
         THEN [st EXCEPT !.current_block_start = i,
                         !.current_block_lines = <<line>>]
         ELSE [st EXCEPT !.current_block_lines = Append(@, line)]
    ELSE IF st.current_block_start # None
    THEN [st EXCEPT !.code_blocks = Finalize(st),
                    !.current_block_start = None,
                    !.current_block_lines = << >>]
    ELSE st

\* one iteration of the loop over enumerate(lines): i is the 0-based index
ScanStep(st, i, line, fm) ==
    IF fm[1] # None /\ fm[1] <= i /\ i <= fm[2] THEN st
    ELSE IF IsFenceMarker(line)
    THEN [st EXCEPT !.in_fenced_block = ~st.in_fenced_block,
                    !.current_block_start = None,
                    !.current_block_lines = << >>]
    ELSE IF st.in_fenced_block THEN st
    ELSE IF IsIndented(line) \/ (IsBlank(line) /\ st.current_block_start # None)
    THEN IF st.current_block_start = None
         THEN [st EXCEPT !.current_block_start = i,
                         !.current_block_lines = <<line>>]
         ELSE [st EXCEPT !.current_block_lines = Append(@, line)]
    ELSE IF st.current_block_start # None
    THEN [st EXCEPT !.code_blocks = Finalize(st),
                    !.current_block_start = None,
                    !.current_block_lines = << >>]
    ELSE st

RECURSIVE ScanTo(_, _, _)
\* the scanner's variables after the first n lines
ScanTo(lines, n, fm) ==
    IF n = 0 THEN ScanInit
    ELSE ScanStep(ScanTo(lines, n - 1, fm), n - 1, lines[n], fm)

\* the code after the loop
ScanEnd(st) ==
    IF st.current_block_start # None /\ ~st.in_fenced_block
    THEN Finalize(st)
    ELSE st.code_blocks

\* a scan that does not look for the frontmatter
DetectIgnoringFrontmatter(text) ==
    LET lines == Split(text)
    IN  ScanEnd(ScanTo(lines, Len(lines), <<None, None>>))

DetectIndentedCodeBlocks(text) ==
    LET lines == Split(text)
        fm == DetectFrontmatterBoundaries(text)
    IN  ScanEnd(ScanTo(lines, Len(lines), fm))

(***************************************************************************)
(* unindent_code                                                           *)
(***************************************************************************)
\* an unindent that removes all the leading whitespace
UnindentLineAll(line) == LStrip(line)

UnindentLine(line) ==
    IF StartsWith(line, S4) THEN SubSeq(line, 5, Len(line))
    ELSE IF StartsWith(line, <<TAB>>) THEN SubSeq(line, 2, Len(line))
    ELSE line

UnindentCode(code_content) ==
    LET lines == Split(code_content)
    IN  Join([j \in 1..Len(lines) |-> UnindentLine(lines[j])])

(***************************************************************************)
(* convert_to_fenced_blocks                                                *)
(***************************************************************************)
\* lines[start_line:end_line + 1] = fenced_block
\* a replacement that leaves the closing fence out
SpliceOpeningOnly(lines, block) ==
    LET fenced_block == <<Fence>> \o Split(UnindentCode(block[3]))
    IN  SubSeq(lines, 1, block[1]) \o fenced_block
            \o SubSeq(lines, block[2] + 2, Len(lines))

Splice(lines, block) ==
    LET fenced_block == <<Fence>> \o Split(UnindentCode(block[3])) \o <<Fence>>
    IN  SubSeq(lines, 1, block[1]) \o fenced_block
            \o SubSeq(lines, block[2] + 2, Len(lines))

RECURSIVE SpliceForwardFrom(_, _, _)
\* the loop over code_blocks in detection order, blocks j, j+1, ... still to do
SpliceForwardFrom(lines, code_blocks, j) ==
    IF j > Len(code_blocks) THEN lines
    ELSE SpliceForwardFrom(Splice(lines, code_blocks[j]), code_blocks, j + 1)

\* a loop without reversed()
SpliceForward(lines, code_blocks, k) == SpliceForwardFrom(lines, code_blocks, 1)

RECURSIVE SpliceReversed(_, _, _)
\* the loop over reversed(code_blocks): blocks k, k-1, ..., 1 are still to do
SpliceReversed(lines, code_blocks, k) ==
    IF k = 0 THEN lines
    ELSE SpliceReversed(Splice(lines, code_blocks[k]), code_blocks, k - 1)

\* str.splitlines: no last line after a final newline
SplitLines(text) ==
    LET lines == Split(text)
    IN  IF lines[Len(lines)] = << >> THEN SubSeq(lines, 1, Len(lines) - 1) ELSE lines

\* a conversion that always rejoins the lines, split with splitlines()
ConvertRejoining(text) ==
    LET lines == SplitLines(text)
        code_blocks == DetectIndentedCodeBlocks(text)
    IN  Join(SpliceReversed(lines, code_blocks, Len(code_blocks)))

ConvertToFencedBlocks(text) ==
    LET lines == Split(text)
        code_blocks == DetectIndentedCodeBlocks(text)
    IN  IF Len(code_blocks) = 0 THEN text
        ELSE Join(SpliceReversed(lines, code_blocks, Len(code_blocks)))

(***************************************************************************)
(* The documents of the model and the calls made on them                   *)
(***************************************************************************)
\* the lists of 1..MaxLines vocabulary lines
LineLists == UNION { [1..n -> Vocab] : n \in 1..MaxLines }

\* no call of process_file yet
NoCall ==
    [path |-> 0, before |-> << >>, read_ok |-> FALSE, original_content |-> << >>,
     converted_content |-> << >>, write |-> "none", ret |-> FALSE]

\* no dict returned yet
NoResults == [total |-> None, processed |-> None, errors |-> None]

FilesIdle ==
    /\ pc = "idle"
    /\ idx = 0
    /\ processed_count = 0
    /\ error_count = 0
    /\ results = NoResults
    /\ pf = NoCall
    /\ failed = {}
    /\ converter = "none"
    /\ markdown_files = << >>
    /\ modified = {}

Init ==
    /\ \E ls \in LineLists : content = Join(ls)
    /\ op = "none"
    /\ ret = << >>
    /\ again = << >>
    /\ files = << >>
    /\ path_kind = "directory"
    /\ directory = << >>
    /\ calls = << >>
    /\ FilesIdle

CallDetectFrontmatterBoundaries ==
    /\ op = "none"
    /\ op' = "detect_frontmatter_boundaries"
    /\ ret' = DetectFrontmatterBoundaries(content)
    /\ UNCHANGED <<calls, content, again, fileVars, dirVars>>

CallDetectIndentedCodeBlocks ==
    /\ op = "none"
    /\ op' = "detect_indented_code_blocks"
    /\ ret' = DetectIndentedCodeBlocks(content)
    /\ UNCHANGED <<calls, content, again, fileVars, dirVars>>

CallUnindentCode ==
    /\ op = "none"
    /\ op' = "unindent_code"
    /\ ret' = UnindentCode(content)
    /\ UNCHANGED <<calls, content, again, fileVars, dirVars>>

CallConvertToFencedBlocks ==
    /\ op = "none"
    /\ op' = "convert_to_fenced_blocks"
    /\ ret' = ConvertToFencedBlocks(content)
    /\ UNCHANGED <<calls, content, again, fileVars, dirVars>>

\* the caller converts the text it got back
CallConvertAgain ==
    /\ op = "convert_to_fenced_blocks"
    /\ op' = "convert_again"
    /\ again' = ConvertToFencedBlocks(ret)
    /\ UNCHANGED <<calls, content, ret, fileVars, dirVars>>

Next ==
    \/ CallDetectFrontmatterBoundaries
    \/ CallDetectIndentedCodeBlocks
    \/ CallUnindentCode
    \/ CallConvertToFencedBlocks
    \/ CallConvertAgain

Spec == Init /\ [][Next]_vars

(***************************************************************************)
(* The detection and the conversion of blocks, on the documents made of    *)
(* the lines the scanner tells apart.                                      *)
(***************************************************************************)
BlockVocab ==
    { << >>,                    \* empty line
      S4,                       \* whitespace-only line of four spaces
      <<SP, "a">>,              \* prose
      S4 \o <<"a">>,            \* code indented by four spaces
      <<TAB, "a">>,             \* code indented by a tab
      Fence,                    \* fence marker
      S4 \o Fence,              \* indented fence marker
      Plus3 }                   \* TOML delimiter

\* the lists of 1..MaxBlockLines lines
BlockLists == UNION { [1..n -> BlockVocab] : n \in 1..MaxBlockLines }

InitBlocks ==
    /\ \E ls \in BlockLists : content = Join(ls)
    /\ op = "none"
    /\ ret = << >>
    /\ again = << >>
    /\ files = << >>
    /\ path_kind = "directory"
    /\ directory = << >>
    /\ calls = << >>
    /\ FilesIdle

NextBlocks ==
    \/ CallDetectIndentedCodeBlocks
    \/ CallConvertToFencedBlocks

SpecBlocks == InitBlocks /\ [][NextBlocks]_vars

(***************************************************************************)
(* process_file and process_all_files                                      *)
(***************************************************************************)
\* what the open(..., 'w') and the f.write of process_file can do: succeed,
\* raise in open() with the file as it was, or raise after open() has
\* truncated the file
WriteOutcomes == {"ok", "open_fails", "write_fails"}

\* process_file on a file holding text; read_ok tells whether open(..., 'r')
\* and f.read() succeed, write what the writing does if it is tried.
\* ret is the value returned, text what the file holds afterwards, caught
\* whether the except clause of process_file ran, raised whether an
\* exception left process_file.
ProcessFileWritingAlways(text, read_ok, write) ==
    IF ~read_ok
    THEN [ret |-> FALSE, text |-> text, original_content |-> << >>,
          converted_content |-> << >>, write |-> "none",
          caught |-> TRUE, raised |-> FALSE]
    ELSE LET converted_content == ConvertToFencedBlocks(text)
         IN  IF write = "ok"
             THEN [ret |-> TRUE, text |-> converted_content,
                   original_content |-> text,
                   converted_content |-> converted_content, write |-> write,
                   caught |-> FALSE, raised |-> FALSE]
             ELSE [ret |-> FALSE,
                   text |-> IF write = "open_fails" THEN text ELSE << >>,
                   original_content |-> text,
                   converted_content |-> converted_content, write |-> write,
                   caught |-> TRUE, raised |-> FALSE]

ProcessFile(text, read_ok, write) ==
    IF ~read_ok
    THEN [ret |-> FALSE, text |-> text, original_content |-> << >>,
          converted_content |-> << >>, write |-> "none",
          caught |-> TRUE, raised |-> FALSE]
    ELSE LET converted_content == ConvertToFencedBlocks(text)
         IN  IF text # converted_content
             THEN IF write = "ok"
                  THEN [ret |-> TRUE, text |-> converted_content,
                        original_content |-> text,
                        converted_content |-> converted_content, write |-> write,
                        caught |-> FALSE, raised |-> FALSE]
                  ELSE [ret |-> FALSE,
                        text |-> IF write = "open_fails" THEN text ELSE << >>,
                        original_content |-> text,
                        converted_content |-> converted_content, write |-> write,
                        caught |-> TRUE, raised |-> FALSE]
             ELSE [ret |-> FALSE, text |-> text, original_content |-> text,
                   converted_content |-> converted_content, write |-> "none",
                   caught |-> FALSE, raised |-> FALSE]

\* a text of one block of code
CodeText == Join(<<S4 \o <<"a">>, << >>>>)

\* the texts a markdown file of the model can hold
FileTexts ==
    { <<SP, "a">>,                                 \* prose only
      CodeText,
      Join(<<Fence, S4 \o <<"a">>, Fence>>),       \* fenced already
      Join(<<<<SP, "a">>, <<TAB, "a">>, <<SP, "a">>, S4 \o <<TAB, "a">>>>) }

\* the suffixes of the names in the directory
Suffixes == {".md", ".MKD", ".txt"}

\* str.lower on a suffix
Lower(suffix) == IF suffix = ".MKD" THEN ".mkd" ELSE suffix

markdown_extensions == {".md", ".markdown", ".mdown", ".mkd"}

\* an entry of the directory: its suffix, whether it is a regular file, and
\* the place of its text in files (0 when it is no markdown file)
DirEntry(suffix, is_file, text) ==
    [suffix |-> suffix, is_file |-> is_file, text |-> text]

RECURSIVE FindFrom(_, _)
\* the loop over self.directory.iterdir(), from entry j on
FindFrom(dir, j) ==
    IF j > Len(dir) THEN << >>
    ELSE IF dir[j].is_file /\ Lower(dir[j].suffix) \in markdown_extensions
    THEN <<j>> \o FindFrom(dir, j + 1)
    ELSE FindFrom(dir, j + 1)

\* find_markdown_files: the places in the directory of the markdown files
FindMarkdownFiles(dir) == FindFrom(dir, 1)

\* an __init__ that only looks whether the path exists
InitConverterExistsOnly(kind) ==
    IF kind = "missing" THEN "ValueError" ELSE "constructed"

\* __init__: what becomes of the converter for a path of this kind
InitConverter(kind) ==
    IF kind = "missing" THEN "ValueError"
    ELSE IF kind # "directory" THEN "ValueError"
    ELSE "constructed"

PathKinds == {"missing", "file", "directory"}

\* the directories of up to MaxFiles entries, each a .md file holding one of
\* FileTexts, a .MKD file or a .txt file holding CodeText, or a subdirectory
\* named like a markdown file
EntryKinds ==
    { <<".md", TRUE>>, <<".MKD", TRUE>>, <<".txt", TRUE>>, <<".md", FALSE>> }

RECURSIVE TextsOf(_, _, _)
\* the texts of the markdown files among the entries j.. of a directory,
\* texts[j] being what entry j holds
TextsOf(kinds, texts, j) ==
    IF j > Len(kinds) THEN << >>
    ELSE IF kinds[j][2] /\ kinds[j][1] # ".txt"
    THEN <<texts[j]>> \o TextsOf(kinds, texts, j + 1)
    ELSE TextsOf(kinds, texts, j + 1)

InitFiles ==
    /\ content = << >>
    /\ op = "none"
    /\ ret = << >>
    /\ again = << >>
    /\ path_kind \in PathKinds
    /\ \E n \in 0..MaxFiles :
           \E kinds \in [1..n -> EntryKinds] :
               \E texts \in [1..n -> FileTexts] :
                   /\ path_kind # "directory" => n = 0
                   /\ \A j \in 1..n :
                          kinds[j] # <<".md", TRUE>> => texts[j] = CodeText
                   /\ directory =
                          [j \in 1..n |-> DirEntry(kinds[j][1], kinds[j][2], texts[j])]
                   /\ files = TextsOf(kinds, texts, 1)
    /\ calls = << >>
    /\ FilesIdle

\* MarkdownCodeBlockConverter(directory)
Construct ==
    /\ converter = "none"
    /\ converter' = InitConverter(path_kind)
    /\ UNCHANGED <<calls, coreVars, fileVars, path_kind, directory, markdown_files, modified>>

\* process_all_files up to its loop: the early return for an empty directory
StartProcessAllFiles ==
    /\ converter = "constructed"
    /\ pc = "idle"
    /\ markdown_files' = FindMarkdownFiles(directory)
    /\ IF Len(markdown_files') = 0
       THEN /\ results' = [total |-> 0, processed |-> 0, errors |-> 0]
            /\ pc' = "done"
            /\ idx' = idx
       ELSE /\ results' = results
            /\ pc' = "loop"
            /\ idx' = 1
    /\ processed_count' = 0
    /\ error_count' = 0
    /\ UNCHANGED <<calls, coreVars, files, pf, failed, path_kind, directory, converter, modified>>

\* one iteration of the loop of process_all_files
ProcessNextFile ==
    /\ pc = "loop"
    /\ idx <= Len(markdown_files)
    /\ \E read_ok \in BOOLEAN, write \in WriteOutcomes :
           LET r == ProcessFile(files[idx], read_ok, write)
           IN  /\ files' = [files EXCEPT ![idx] = r.text]
               /\ pf' = [path |-> idx, before |-> files[idx], read_ok |-> read_ok,
                         original_content |-> r.original_content,
                         converted_content |-> r.converted_content,
                         write |-> r.write, ret |-> r.ret]
               /\ processed_count' =
                      IF ~r.raised /\ r.ret THEN processed_count + 1
                      ELSE processed_count
               /\ error_count' = IF r.raised THEN error_count + 1 ELSE error_count
               /\ failed' = IF r.caught \/ r.raised THEN failed \cup {idx} ELSE failed
               /\ modified' = IF ~r.raised /\ r.ret THEN modified \cup {idx} ELSE modified
    /\ idx' = idx + 1
    /\ UNCHANGED <<calls, coreVars, pc, results, path_kind, directory, converter, markdown_files>>

\* the end of process_all_files with a total that counts the files the loop
\* has counted
FinishCountingCounted ==
    /\ pc = "loop"
    /\ idx > Len(markdown_files)
    /\ results' = [total |-> processed_count + error_count,
                   processed |-> processed_count,
                   errors |-> error_count]
    /\ pc' = "done"
    /\ UNCHANGED <<calls, coreVars, files, idx, processed_count, error_count, pf, failed, dirVars>>

\* process_all_files after its loop
FinishProcessAllFiles ==
    /\ pc = "loop"
    /\ idx > Len(markdown_files)
    /\ results' = [total |-> Len(markdown_files), processed |-> processed_count,
                   errors |-> error_count]
    /\ pc' = "done"
    /\ UNCHANGED <<calls, coreVars, files, idx, processed_count, error_count, pf, failed, dirVars>>

NextFiles ==
    \/ Construct
    \/ StartProcessAllFiles
    \/ ProcessNextFile
    \/ FinishProcessAllFiles

SpecFiles == InitFiles /\ [][NextFiles]_vars

(***************************************************************************)
(* The core methods line by line.  Two calls are in progress on the one    *)
(* converter, each on its own document; a step of either may come next.    *)
(* The methods assign to local variables only: a call is a record of them. *)
(***************************************************************************)
Frames == {1, 2}

Methods == {"detect_indented_code_blocks", "convert_to_fenced_blocks"}

ScanVocab == { <<SP, "a">>, S4 \o <<"a">>, Fence }

\* the lists of 1..MaxScanLines lines
ScanLists == UNION { [1..n -> ScanVocab] : n \in 1..MaxScanLines }

\* the second call: a scan of a document that ends inside a fence, or the
\* conversion of a document with two blocks
OtherCalls ==
    { <<"detect_indented_code_blocks", Join(<<Fence, S4 \o <<"a">>>>)>>,
      <<"convert_to_fenced_blocks",
        Join(<<S4 \o <<"a">>, <<SP, "a">>, S4 \o <<"a">>>>)>> }

\* a call that has not run yet
NewFrame(method, text) ==
    [method |-> method,
     content |-> text,
     pc |-> "call",
     lines |-> << >>,
     fm |-> <<None, None>>,
     i |-> 0,
     st |-> ScanInit,
     code_blocks |-> << >>,
     k |-> 0,
     result |-> << >>,
     visited |-> << >>,
     splices |-> 0]

InitScan ==
    /\ content = << >>
    /\ op = "none"
    /\ ret = << >>
    /\ again = << >>
    /\ files = << >>
    /\ path_kind = "directory"
    /\ directory = << >>
    /\ FilesIdle
    /\ \E ls \in ScanLists : \E m \in Methods : \E c \in OtherCalls :
           calls = <<NewFrame(m, Join(ls)), NewFrame(c[1], c[2])>>

\* the scanner's variables, were in_fenced_block kept on the converter
LocalsFenceOnInstance(cs, f) ==
    [cs[f].st EXCEPT !.in_fenced_block = cs[1].st.in_fenced_block]

\* the scanner's variables call f reads and writes: its own locals
Locals(cs, f) == cs[f].st

\* a loop that leaves the last line out
EnumerateDoneEarly(i, lines) == i >= Len(lines) - 1

\* "for i, line in enumerate(lines)" has no line left
EnumerateDone(i, lines) == i = Len(lines)

\* the statements before the loop; convert_to_fenced_blocks begins with the
\* call of detect_indented_code_blocks
Enter(f) ==
    /\ calls[f].pc = "call"
    /\ calls' = [calls EXCEPT
           ![f].lines = Split(calls[f].content),
           ![f].fm = DetectFrontmatterBoundaries(calls[f].content),
           ![f].st = ScanInit,
           ![f].i = 0,
           ![f].pc = "scan"]
    /\ UNCHANGED <<coreVars, fileVars, dirVars>>

\* one iteration of the loop over the lines
ScanLine(f) ==
    /\ calls[f].pc = "scan"
    /\ ~EnumerateDone(calls[f].i, calls[f].lines)
    /\ calls' = [calls EXCEPT
           ![f].st = ScanStep(Locals(calls, f), calls[f].i,
                              calls[f].lines[calls[f].i + 1], calls[f].fm),
           ![f].visited = Append(@, calls[f].i),
           ![f].i = @ + 1]
    /\ UNCHANGED <<coreVars, fileVars, dirVars>>

\* the code after the loop and the return of detect_indented_code_blocks;
\* in convert_to_fenced_blocks, which has split the content into its own
\* lines before the call, the test for no block that follows
ScanFinish(f) ==
    /\ calls[f].pc = "scan"
    /\ EnumerateDone(calls[f].i, calls[f].lines)
    /\ LET code_blocks == ScanEnd(Locals(calls, f))
       IN  calls' = [calls EXCEPT
               ![f].code_blocks = code_blocks,
               ![f].k = Len(code_blocks),
               ![f].lines =
                   IF calls[f].method = "convert_to_fenced_blocks"
                      /\ Len(code_blocks) > 0
                   THEN Split(calls[f].content) ELSE @,
               ![f].result =
                   IF calls[f].method = "detect_indented_code_blocks"
                   THEN code_blocks
                   ELSE IF Len(code_blocks) = 0 THEN calls[f].content ELSE @,
               ![f].pc =
                   IF calls[f].method = "convert_to_fenced_blocks"
                      /\ Len(code_blocks) > 0
                   THEN "splice" ELSE "returned"]
    /\ UNCHANGED <<coreVars, fileVars, dirVars>>

\* one iteration of the loop over reversed(code_blocks)
SpliceBlock(f) ==
    /\ calls[f].pc = "splice"
    /\ calls[f].k > 0
    /\ calls' = [calls EXCEPT
           ![f].lines = Splice(@, calls[f].code_blocks[calls[f].k]),
           ![f].splices = @ + 1,
           ![f].k = @ - 1]
    /\ UNCHANGED <<coreVars, fileVars, dirVars>>

\* return '\n'.join(lines)
ConvertReturn(f) ==
    /\ calls[f].pc = "splice"
    /\ calls[f].k = 0
    /\ calls' = [calls EXCEPT
           ![f].result = Join(calls[f].lines),
           ![f].pc = "returned"]
    /\ UNCHANGED <<coreVars, fileVars, dirVars>>

\* the next statement of call f
StepFrame(f) ==
    \/ Enter(f)
    \/ ScanLine(f)
    \/ ScanFinish(f)
    \/ SpliceBlock(f)
    \/ ConvertReturn(f)

NextScan == \E f \in Frames : StepFrame(f)

SpecScan == InitScan /\ [][NextScan]_vars

\* a statement that can run does run: the methods wait for nothing
FairSpecScan == SpecScan /\ WF_vars(NextScan)

(***************************************************************************)
(* The dry run of main and process_file on one file.  The directory holds  *)
(* one markdown file; the dry run reads it and reports the blocks that     *)
(* detect_indented_code_blocks finds, process_file converts it in place.   *)
(***************************************************************************)
\* the lists of 1..MaxDryRunLines vocabulary lines
DryRunLists == UNION { [1..n -> Vocab] : n \in 1..MaxDryRunLines }

InitDryRun ==
    /\ \E ls \in DryRunLists : files = <<Join(ls)>>
    /\ content = << >>
    /\ op = "none"
    /\ ret = << >>
    /\ again = << >>
    /\ path_kind = "directory"
    /\ directory = << >>
    /\ calls = << >>
    /\ FilesIdle

\* the body of the loop of the dry run; a read that raises leaves the loop
\* for the "except Exception" of main
DryRunFile ==
    /\ op = "none"
    /\ op' = "dry_run"
    /\ \E read_ok \in BOOLEAN :
           IF read_ok
           THEN /\ content' = files[1]
                /\ ret' = [raised |-> FALSE,
                           code_blocks |-> DetectIndentedCodeBlocks(files[1])]
           ELSE /\ content' = content
                /\ ret' = [raised |-> TRUE, code_blocks |-> << >>]
    /\ UNCHANGED <<calls, again, fileVars, dirVars>>

\* converter.process_file(file_path)
CallProcessFile ==
    /\ pf = NoCall
    /\ \E read_ok \in BOOLEAN, write \in WriteOutcomes :
           LET r == ProcessFile(files[1], read_ok, write)
           IN  /\ files' = <<r.text>>
               /\ pf' = [path |-> 1, before |-> files[1], read_ok |-> read_ok,
                         original_content |-> r.original_content,
                         converted_content |-> r.converted_content,
                         write |-> r.write, ret |-> r.ret]
    /\ UNCHANGED <<calls, coreVars, pc, idx, processed_count, error_count,
                   results, failed, dirVars>>

NextDryRun ==
    \/ DryRunFile
    \/ CallProcessFile

SpecDryRun == InitDryRun /\ [][NextDryRun]_vars

(***************************************************************************)
(* What the properties below speak of.  Line i of the code, counted from   *)
(* 0, is lines[i + 1].                                                     *)
(***************************************************************************)
InFrontmatter(fm, i) == fm[1] # None /\ fm[1] <= i /\ i <= fm[2]

InSomeSpan(spans, i) ==
    \E k \in 1..Len(spans) : spans[k][1] <= i /\ i <= spans[k][2]

\* the trimmed line starts with three backquotes
TripleBacktick(line) ==
    LET s == Strip(line)
    IN  Len(s) >= 3 /\ s[1] = BT /\ s[2] = BT /\ s[3] = BT

MarkersBefore(lines, fm, i) ==
    Cardinality({ j \in 0..(i - 1) :
                    ~InFrontmatter(fm, j) /\ TripleBacktick(lines[j + 1]) })

\* line i is a fence line, or lies after an odd number of fence lines
Fenced(lines, fm, i) ==
    /\ ~InFrontmatter(fm, i)
    /\ (TripleBacktick(lines[i + 1]) \/ MarkersBefore(lines, fm, i) % 2 = 1)

FourSpaces(line) ==
    Len(line) >= 4 /\ \A j \in 1..4 : line[j] = SP

LeadingTab(line) == Len(line) >= 1 /\ line[1] = TAB

\* where line i of the input is in the output: two fence lines are added for
\* every span before it
OutIndex(spans, i) == i + 2 * Cardinality({ k \in 1..Len(spans) : spans[k][2] < i })

\* line i of the input is in the output, as it was
KeptAsIs(lines, spans, out, i) ==
    OutIndex(spans, i) < Len(out) /\ out[OutIndex(spans, i) + 1] = lines[i + 1]

RECURSIVE ForwardRebuild(_, _, _, _)
\* the output built front to back: the lines from index i on, span k being
\* the next one
ForwardRebuild(lines, spans, i, k) ==
    IF k > Len(spans) THEN SubSeq(lines, i + 1, Len(lines))
    ELSE LET start == spans[k][1]
             end == spans[k][2]
         IN  SubSeq(lines, i + 1, start)
                 \o <<Fence>>
                 \o [j \in 1..(end - start + 1) |-> UnindentLine(lines[start + j])]
                 \o <<Fence>>
                 \o ForwardRebuild(lines, spans, end + 1, k + 1)

(***************************************************************************)
(* C1  Idempotence: converting the output of convert_to_fenced_blocks      *)
(* gives that output again, and detect_indented_code_blocks finds no span  *)
(* in it.                                                                  *)
(***************************************************************************)
C1_Idempotence ==
    op = "convert_again" =>
        /\ again = ret
        /\ DetectIndentedCodeBlocks(ret) = << >>

\* a converted document whose fenced code is still indented has been
\* converted again
C1_Witness ==
    /\ op = "convert_again"
    /\ ret # content
    /\ LET out == Split(ret)
       IN  \E j \in 1..Len(out) : IsIndented(out[j]) /\ ~IsBlank(out[j])

(***************************************************************************)
(* C2  Fence-state correctness: a fence line, and a line after an opening  *)
(* fence line that no later fence line has closed, outside the             *)
(* frontmatter, is in no detected span and is in the output as it was,     *)
(* also when it starts with four spaces or a tab.                          *)
(***************************************************************************)
C2_FenceStateCorrectness ==
    op = "convert_to_fenced_blocks" =>
        LET lines == Split(content)
            fm == DetectFrontmatterBoundaries(content)
            spans == DetectIndentedCodeBlocks(content)
            out == Split(ret)
        IN  \A i \in 0..(Len(lines) - 1) :
                Fenced(lines, fm, i) =>
                    ~InSomeSpan(spans, i) /\ KeptAsIs(lines, spans, out, i)

\* an indented line inside a closed fence, in a document with a span
C2_Witness ==
    /\ op = "convert_to_fenced_blocks"
    /\ LET lines == Split(content)
           fm == DetectFrontmatterBoundaries(content)
       IN  /\ Len(DetectIndentedCodeBlocks(content)) > 0
           /\ \E i \in 1..(Len(lines) - 2) :
                  /\ Fenced(lines, fm, i)
                  /\ ~TripleBacktick(lines[i + 1])
                  /\ IsIndented(lines[i + 1])
                  /\ TripleBacktick(lines[i + 2])

(***************************************************************************)
(* C3  Frontmatter preservation: when detect_frontmatter_boundaries gives  *)
(* (0, e), lines 0..e of the output are lines 0..e of the input and no     *)
(* span has a line index <= e.                                             *)
(***************************************************************************)
C3_FrontmatterPreservation ==
    op = "convert_to_fenced_blocks" =>
        LET lines == Split(content)
            fm == DetectFrontmatterBoundaries(content)
            spans == DetectIndentedCodeBlocks(content)
            out == Split(ret)
        IN  fm[1] = 0 =>
                /\ Len(out) > fm[2]
                /\ \A i \in 0..fm[2] : out[i + 1] = lines[i + 1]
                /\ \A k \in 1..Len(spans) : spans[k][1] > fm[2]

\* a frontmatter with an indented line, before a block that is converted
C3_Witness ==
    /\ op = "convert_to_fenced_blocks"
    /\ ret # content
    /\ LET lines == Split(content)
           fm == DetectFrontmatterBoundaries(content)
       IN  /\ fm[1] = 0
           /\ \E i \in 0..fm[2] : IsIndented(lines[i + 1]) /\ ~IsBlank(lines[i + 1])

(***************************************************************************)
(* C4  Rewriter result: the output of the splices in descending order is   *)
(* the forward rebuild: the lines outside the spans as they were, each     *)
(* span replaced by a fence line, its unindented lines and a fence line.   *)
(***************************************************************************)
C4_RewriterResult ==
    op = "convert_to_fenced_blocks" =>
        ret = Join(ForwardRebuild(Split(content), DetectIndentedCodeBlocks(content), 0, 1))

\* two spans, the first of more than one line, have been spliced
C4_Witness ==
    /\ op = "convert_to_fenced_blocks"
    /\ LET spans == DetectIndentedCodeBlocks(content)
       IN  Len(spans) >= 2 /\ spans[1][2] > spans[1][1]

(***************************************************************************)
(* C5  Span ordering: every span has start_line <= end_line, each span     *)
(* ends before the next one starts, and no span holds a line of the        *)
(* frontmatter or a line at which the scanner's fence state is true.       *)
(***************************************************************************)
C5_SpanOrdering ==
    op = "detect_indented_code_blocks" =>
        LET lines == Split(content)
            fm == DetectFrontmatterBoundaries(content)
        IN  /\ \A k \in 1..Len(ret) : 0 <= ret[k][1] /\ ret[k][1] <= ret[k][2]
            /\ \A k \in 1..(Len(ret) - 1) : ret[k][2] < ret[k + 1][1]
            /\ \A k \in 1..Len(ret) : \A i \in ret[k][1]..ret[k][2] :
                   /\ i < Len(lines)
                   /\ ~InFrontmatter(fm, i)
                   /\ ~ScanTo(lines, i + 1, fm).in_fenced_block

\* two spans, the first of two lines
C5_Witness ==
    /\ op = "detect_indented_code_blocks"
    /\ Len(ret) >= 2
    /\ ret[1][2] > ret[1][1]

(***************************************************************************)
(* C6  Unindent correctness: unindent_code returns as many lines as it     *)
(* gets; a line starting with four spaces loses those four characters,     *)
(* any other line starting with a tab loses that tab, every other line is  *)
(* unchanged.                                                              *)
(***************************************************************************)
C6_UnindentCorrectness ==
    op = "unindent_code" =>
        LET lines == Split(content)
            out == Split(ret)
        IN  /\ Len(out) = Len(lines)
            /\ \A j \in 1..Len(lines) :
                   IF FourSpaces(lines[j]) THEN lines[j] = S4 \o out[j]
                   ELSE IF LeadingTab(lines[j]) THEN lines[j] = <<TAB>> \o out[j]
                   ELSE out[j] = lines[j]

\* lines with nested indentation, with a tab and with too little indentation
C6_Witness ==
    /\ op = "unindent_code"
    /\ ret # content
    /\ LET lines == Split(content)
       IN  /\ \E j \in 1..Len(lines) :
                  FourSpaces(lines[j]) /\ Len(lines[j]) > 4 /\ lines[j][5] = TAB
           /\ \E j \in 1..Len(lines) : LeadingTab(lines[j])
           /\ \E j \in 1..Len(lines) :
                  Len(lines[j]) > 0 /\ lines[j][1] = SP /\ ~FourSpaces(lines[j])

(***************************************************************************)
(* C7  Frontmatter detection: the result is (0, i) exactly when line 0     *)
(* trims to +++ or --- and i is the smallest index >= 1 whose line trims   *)
(* to the delimiter of line 0; otherwise it is (None, None).               *)
(***************************************************************************)
\* the indices >= 1 of the lines that trim to what line 0 trims to
ClosingLines(lines) ==
    { i \in 1..(Len(lines) - 1) : Strip(lines[i + 1]) = Strip(lines[1]) }

C7_FrontmatterDetection ==
    op = "detect_frontmatter_boundaries" =>
        LET lines == Split(content)
        IN  IF Strip(lines[1]) \in {Plus3, Dash3} /\ ClosingLines(lines) # {}
            THEN /\ ret[1] = 0
                 /\ ret[2] \in ClosingLines(lines)
                 /\ \A i \in ClosingLines(lines) : ret[2] <= i
            ELSE ret = <<None, None>>

\* a frontmatter closed by the first of two closing lines, the other
\* delimiter in between
C7_Witness ==
    /\ op = "detect_frontmatter_boundaries"
    /\ ret[1] = 0
    /\ LET lines == Split(content)
       IN  /\ Cardinality(ClosingLines(lines)) >= 2
           /\ \E i \in 1..(ret[2] - 1) : Strip(lines[i + 1]) \in {Plus3, Dash3}

(***************************************************************************)
(* C8  No-op guarantee: when detect_indented_code_blocks finds no span,    *)
(* convert_to_fenced_blocks returns the text it was given.                 *)
(***************************************************************************)
C8_NoOp ==
    (op = "convert_to_fenced_blocks" /\ DetectIndentedCodeBlocks(content) = << >>) =>
        ret = content

\* a document that ends with a newline and whose indented line is dropped
\* by a fence line
C8_Witness ==
    /\ op = "convert_to_fenced_blocks"
    /\ DetectIndentedCodeBlocks(content) = << >>
    /\ LET lines == Split(content)
           fm == DetectFrontmatterBoundaries(content)
       IN  /\ lines[Len(lines)] = << >>
           /\ \E i \in 0..(Len(lines) - 2) :
                  /\ IsIndented(lines[i + 1])
                  /\ ~IsBlank(lines[i + 1])
                  /\ ~Fenced(lines, fm, i)
                  /\ ~InFrontmatter(fm, i)

(***************************************************************************)
(* C9  Per-file failure accounting: when process_all_files has returned,   *)
(* every file has been processed, also after a file whose reading or       *)
(* writing failed, and 'errors' is the number of files whose processing    *)
(* failed.                                                                 *)
(***************************************************************************)
C9_FailureAccounting ==
    pc = "done" =>
        /\ Len(files) > 0 => idx = Len(files) + 1
        /\ results.errors = Cardinality(failed)

(***************************************************************************)
(* C10  Write only on change, as claimed: process_file returns True        *)
(* exactly when the converted text differs from the text read, and the     *)
(* file then holds the converted text; otherwise the file is as it was.    *)
(***************************************************************************)
C10_WriteOnlyOnChange_Original ==
    pf.path # 0 =>
        /\ pf.ret <=> (pf.read_ok /\ pf.converted_content # pf.original_content)
        /\ pf.ret => files[pf.path] = pf.converted_content
        /\ (~pf.read_ok \/ pf.converted_content = pf.original_content) =>
               /\ files[pf.path] = pf.before
               /\ ~pf.ret

(***************************************************************************)
(* C10  Write only on change, amended: process_file returns True exactly   *)
(* when the text was read, the converted text differs from it and the      *)
(* writing succeeded, and the file then holds the converted text; when     *)
(* the reading fails or the converted text is the text read, the file is   *)
(* as it was and process_file returns False.                               *)
(***************************************************************************)
C10_WriteOnlyOnChange ==
    pf.path # 0 =>
        /\ pf.ret <=> (/\ pf.read_ok
                       /\ pf.converted_content # pf.original_content
                       /\ pf.write = "ok")
        /\ pf.ret => files[pf.path] = pf.converted_content
        /\ (~pf.read_ok \/ pf.converted_content = pf.original_content) =>
               /\ files[pf.path] = pf.before
               /\ pf.write = "none"
               /\ ~pf.ret

\* a file read and left alone because its conversion changes nothing, after
\* a file that was written
C10_Witness ==
    /\ pf.path > 1
    /\ pf.read_ok
    /\ pf.converted_content = pf.original_content
    /\ ~pf.ret
    /\ processed_count > 0

(***************************************************************************)
(* C11  Aggregate counts: when process_all_files has returned, 'total' is  *)
(* the number of markdown files of the directory, 'processed' the number   *)
(* of files for which process_file returned True, processed + errors is    *)
(* at most total, and all three are 0 for a directory without markdown     *)
(* files.                                                                  *)
(***************************************************************************)
\* the entries that are regular files with a markdown suffix, in any case
MarkdownEntries ==
    { j \in 1..Len(directory) :
        /\ directory[j].is_file
        /\ directory[j].suffix \in {".md", ".MD", ".mkd", ".MKD", ".markdown", ".mdown"} }

C11_AggregateCounts ==
    pc = "done" =>
        /\ results.total = Cardinality(MarkdownEntries)
        /\ results.processed = Cardinality(modified)
        /\ results.processed + results.errors <= results.total
        /\ MarkdownEntries = {} =>
               results = [total |-> 0, processed |-> 0, errors |-> 0]

\* two markdown files of three, one of them modified, beside another entry
C11_Witness ==
    /\ pc = "done"
    /\ results.total = 2
    /\ results.processed = 1
    /\ Len(directory) = 3

(***************************************************************************)
(* C13  Directory validation: the constructor raises ValueError for a path *)
(* that does not exist or is no directory, and then there is no converter  *)
(* to process files with; for an existing directory it succeeds.           *)
(***************************************************************************)
C13_DirectoryValidation ==
    /\ converter = "ValueError" => path_kind \in {"missing", "file"} /\ pc = "idle"
    /\ converter = "constructed" => path_kind = "directory"
    /\ pc # "idle" => converter = "constructed"

\* the constructor has raised for a path that names a file
C13_Witness ==
    /\ converter = "ValueError"
    /\ path_kind = "file"

(***************************************************************************)
(* C14  Blank lines never start a block: no span returned by               *)
(* detect_indented_code_blocks has a blank line, empty or of whitespace    *)
(* only, as its first line.                                                *)
(***************************************************************************)
C14_BlankNeverStarts ==
    op = "detect_indented_code_blocks" =>
        LET lines == Split(content)
        IN  \A k \in 1..Len(ret) : ~IsBlank(lines[ret[k][1] + 1])

(***************************************************************************)
(* C15  Discard on fence interruption: the indented and blank lines that   *)
(* run, outside a fence and the frontmatter, up to a fence marker line are *)
(* in no span and are in the output as they were.                          *)
(***************************************************************************)
\* lines j..i-1 are indented or blank lines, none a fence marker, right
\* before the fence marker line i that opens a fence
RunBeforeFence(lines, fm, j, i) ==
    /\ j < i
    /\ ~InFrontmatter(fm, i)
    /\ TripleBacktick(lines[i + 1])
    /\ MarkersBefore(lines, fm, i) % 2 = 0
    /\ \A m \in j..(i - 1) :
           /\ ~InFrontmatter(fm, m)
           /\ ~TripleBacktick(lines[m + 1])
           /\ (IsIndented(lines[m + 1]) \/ IsBlank(lines[m + 1]))

C15_DiscardOnFence ==
    op = "convert_to_fenced_blocks" =>
        LET lines == Split(content)
            fm == DetectFrontmatterBoundaries(content)
            spans == DetectIndentedCodeBlocks(content)
            out == Split(ret)
        IN  \A i \in 1..(Len(lines) - 1) : \A j \in 0..(i - 1) :
                RunBeforeFence(lines, fm, j, i) =>
                    \A m \in j..(i - 1) :
                        ~InSomeSpan(spans, m) /\ KeptAsIs(lines, spans, out, m)

\* a line of code is dropped by a fence marker, after a block that is
\* converted
C15_Witness ==
    /\ op = "convert_to_fenced_blocks"
    /\ ret # content
    /\ LET lines == Split(content)
           fm == DetectFrontmatterBoundaries(content)
       IN  \E i \in 1..(Len(lines) - 1) :
               /\ RunBeforeFence(lines, fm, i - 1, i)
               /\ ~IsBlank(lines[i])

(***************************************************************************)
(* C16  Span shape: every span (start, end, content) has                   *)
(* end = start + (number of lines of content) - 1, content is the lines    *)
(* start..end joined by newline, each of them indented or blank, the last  *)
(* one not blank; the blank lines right after it are in no span and follow *)
(* the closing fence in the output.                                        *)
(***************************************************************************)
C16_SpanShape ==
    op = "convert_to_fenced_blocks" =>
        LET lines == Split(content)
            spans == DetectIndentedCodeBlocks(content)
            out == Split(ret)
        IN  \A k \in 1..Len(spans) :
                LET start == spans[k][1]
                    end == spans[k][2]
                    closing == OutIndex(spans, start) + (end - start) + 2
                IN  /\ end = start + Len(Split(spans[k][3])) - 1
                    /\ 0 <= start /\ end < Len(lines)
                    /\ spans[k][3] = Join(SubSeq(lines, start + 1, end + 1))
                    /\ ~IsBlank(lines[end + 1])
                    /\ \A m \in start..end :
                           IsIndented(lines[m + 1]) \/ IsBlank(lines[m + 1])
                    /\ closing < Len(out)
                    /\ out[closing + 1] = Fence
                    /\ \A j \in (end + 1)..(Len(lines) - 1) :
                           (\A m \in (end + 1)..j : IsBlank(lines[m + 1])) =>
                               /\ ~InSomeSpan(spans, j)
                               /\ closing + (j - end) < Len(out)
                               /\ out[closing + (j - end) + 1] = lines[j + 1]

\* a span with a blank line inside, a line of four spaces trimmed after it
C16_Witness ==
    /\ op = "convert_to_fenced_blocks"
    /\ LET lines == Split(content)
           spans == DetectIndentedCodeBlocks(content)
       IN  /\ Len(spans) = 1
           /\ Len(lines) = spans[1][2] + 2
           /\ \E m \in spans[1][1]..spans[1][2] : IsBlank(lines[m + 1])
           /\ lines[Len(lines)] = S4

(***************************************************************************)
(* C17  Block separation: of two lines of code outside fences and          *)
(* frontmatter, not dropped by a fence marker, the two are in one span     *)
(* when only blank or indented lines lie between them, and in two spans,   *)
(* each with its own pair of fence lines, when a line that is neither      *)
(* blank nor indented nor a fence marker lies between them; that line is   *)
(* in the output as it was.                                                *)
(***************************************************************************)
\* line i is followed, after indented and blank lines only, by a fence marker
DroppedByFence(lines, i) ==
    \E m \in (i + 1)..(Len(lines) - 1) :
        /\ TripleBacktick(lines[m + 1])
        /\ \A j \in i..(m - 1) :
               /\ ~TripleBacktick(lines[j + 1])
               /\ (IsIndented(lines[j + 1]) \/ IsBlank(lines[j + 1]))

\* line i is a line of an indented run outside fences and frontmatter
RunLine(lines, fm, i) ==
    /\ ~InFrontmatter(fm, i)
    /\ ~Fenced(lines, fm, i)
    /\ IsIndented(lines[i + 1])
    /\ ~IsBlank(lines[i + 1])

\* line i is a line of an indented run that no fence marker interrupts
CodeLine(lines, fm, i) ==
    RunLine(lines, fm, i) /\ ~DroppedByFence(lines, i)

\* the span line i is in, 0 if none
SpanOf(spans, i) ==
    IF InSomeSpan(spans, i)
    THEN CHOOSE k \in 1..Len(spans) : spans[k][1] <= i /\ i <= spans[k][2]
    ELSE 0

\* the lines of the output for span k: a fence line before and after
FencedAlone(spans, out, k) ==
    LET open == OutIndex(spans, spans[k][1])
        close == open + (spans[k][2] - spans[k][1]) + 2
    IN  /\ close < Len(out)
        /\ out[open + 1] = Fence
        /\ out[close + 1] = Fence
        /\ \A m \in (open + 1)..(close - 1) : ~TripleBacktick(out[m + 1])

\* the statement for every indented run, interrupted by a fence marker or not
C17_BlockSeparation_Original ==
    op = "convert_to_fenced_blocks" =>
        LET lines == Split(content)
            fm == DetectFrontmatterBoundaries(content)
            spans == DetectIndentedCodeBlocks(content)
        IN  \A a \in 0..(Len(lines) - 1) : \A b \in (a + 1)..(Len(lines) - 1) :
                (RunLine(lines, fm, a) /\ RunLine(lines, fm, b)) =>
                    /\ (b > a + 1 /\ \A c \in (a + 1)..(b - 1) : IsBlank(lines[c + 1]))
                           => SpanOf(spans, a) # 0
                              /\ SpanOf(spans, a) = SpanOf(spans, b)
                    /\ (\E c \in (a + 1)..(b - 1) :
                            /\ ~IsBlank(lines[c + 1])
                            /\ ~IsIndented(lines[c + 1])
                            /\ ~TripleBacktick(lines[c + 1])) =>
                               /\ SpanOf(spans, a) # 0
                               /\ SpanOf(spans, b) # 0
                               /\ SpanOf(spans, a) # SpanOf(spans, b)

\* the statement for the runs that no fence marker interrupts
C17_BlockSeparation ==
    op = "convert_to_fenced_blocks" =>
        LET lines == Split(content)
            fm == DetectFrontmatterBoundaries(content)
            spans == DetectIndentedCodeBlocks(content)
            out == Split(ret)
        IN  \A a \in 0..(Len(lines) - 1) : \A b \in (a + 1)..(Len(lines) - 1) :
                (CodeLine(lines, fm, a) /\ CodeLine(lines, fm, b)) =>
                    /\ SpanOf(spans, a) # 0
                    /\ SpanOf(spans, b) # 0
                    /\ (\A c \in (a + 1)..(b - 1) :
                            IsBlank(lines[c + 1]) \/ IsIndented(lines[c + 1]))
                           => SpanOf(spans, a) = SpanOf(spans, b)
                    /\ \A c \in (a + 1)..(b - 1) :
                           (/\ ~IsBlank(lines[c + 1])
                            /\ ~IsIndented(lines[c + 1])
                            /\ ~TripleBacktick(lines[c + 1])) =>
                               /\ SpanOf(spans, a) < SpanOf(spans, b)
                               /\ FencedAlone(spans, out, SpanOf(spans, a))
                               /\ FencedAlone(spans, out, SpanOf(spans, b))
                               /\ ~InSomeSpan(spans, c)
                               /\ KeptAsIs(lines, spans, out, c)

\* two lines of code with an empty line between them, then prose, then code
C17_Witness ==
    /\ op = "convert_to_fenced_blocks"
    /\ LET lines == Split(content)
           fm == DetectFrontmatterBoundaries(content)
           spans == DetectIndentedCodeBlocks(content)
       IN  /\ Len(lines) = 5 \/ Len(lines) = 4
           /\ Len(spans) = 2
           /\ CodeLine(lines, fm, 0)
           /\ lines[2] = << >>
           /\ ~IsBlank(lines[3]) /\ ~IsIndented(lines[3])
           /\ CodeLine(lines, fm, 3)
           /\ spans[2][1] = 3

(***************************************************************************)
(* C18  Purely blank runs produce nothing: every span holds a line that is *)
(* not blank, and a document of blank lines only has no span and is        *)
(* returned unchanged by convert_to_fenced_blocks.                         *)
(***************************************************************************)
C18_BlankRunsNothing ==
    op = "convert_to_fenced_blocks" =>
        LET lines == Split(content)
            spans == DetectIndentedCodeBlocks(content)
        IN  /\ \A k \in 1..Len(spans) :
                   \E m \in spans[k][1]..spans[k][2] :
                       m < Len(lines) /\ ~IsBlank(lines[m + 1])
            /\ (\A j \in 1..Len(lines) : IsBlank(lines[j])) =>
                   spans = << >> /\ ret = content

\* a document of an empty line between two lines of four spaces
C18_Witness ==
    /\ op = "convert_to_fenced_blocks"
    /\ LET lines == Split(content)
       IN  /\ Len(lines) >= 3
           /\ \A j \in 1..Len(lines) : IsBlank(lines[j])
           /\ lines[1] = S4
           /\ lines[2] = << >>
           /\ lines[3] = S4

(***************************************************************************)
(* C19  Frontmatter lines do not affect the scanner: after the last line   *)
(* of the frontmatter the fence state is false, no block is open and no    *)
(* span has been emitted, whatever the frontmatter holds.                  *)
(***************************************************************************)
C19_FrontmatterNoEffect ==
    op = "detect_indented_code_blocks" =>
        LET lines == Split(content)
            fm == DetectFrontmatterBoundaries(content)
        IN  fm[1] # None =>
                \A n \in 0..(fm[2] + 1) : ScanTo(lines, n, fm) = ScanInit

\* a fence marker line inside the frontmatter, a line of code right after it
C19_Witness ==
    /\ op = "detect_indented_code_blocks"
    /\ LET lines == Split(content)
           fm == DetectFrontmatterBoundaries(content)
       IN  /\ fm[1] # None
           /\ fm[2] + 1 < Len(lines)
           /\ \E m \in fm[1]..fm[2] : IsFenceMarker(lines[m + 1])
           /\ ret = <<<<fm[2] + 1, fm[2] + 1, lines[fm[2] + 2]>>>>

(***************************************************************************)
(* C12  Statelessness: what a call of detect_indented_code_blocks or       *)
(* convert_to_fenced_blocks returns depends on its document alone; the     *)
(* call of another document on the same converter, before it or            *)
(* interleaved with it, does not change it.                                *)
(***************************************************************************)
C12_Statelessness ==
    \A f \in DOMAIN calls :
        calls[f].pc = "returned" =>
            calls[f].result =
                IF calls[f].method = "detect_indented_code_blocks"
                THEN DetectIndentedCodeBlocks(calls[f].content)
                ELSE ConvertToFencedBlocks(calls[f].content)

\* the second call has returned no block for a document that ends inside a
\* fence, having scanned its last line while the first call was in the
\* middle of a document, outside a fence with a block open
C12_Witness ==
    /\ Len(calls) = 2
    /\ calls[2].pc = "returned"
    /\ calls[2].method = "detect_indented_code_blocks"
    /\ calls[2].content = Join(<<Fence, S4 \o <<"a">>>>)
    /\ calls[2].result = << >>
    /\ calls[1].pc = "scan"
    /\ calls[1].i = 1
    /\ Len(calls[1].lines) = 3
    /\ calls[1].st.current_block_start = 0
    /\ ~calls[1].st.in_fenced_block

(***************************************************************************)
(* C20  Termination: detect_indented_code_blocks visits each line once, in *)
(* increasing order, and then finishes; convert_to_fenced_blocks finishes  *)
(* after one splice per span detected.                                     *)
(***************************************************************************)
\* the indexes 0..n-1 in increasing order
UpTo(n) == [j \in 1..n |-> j - 1]

C20_SinglePass ==
    \A f \in DOMAIN calls :
        /\ calls[f].pc = "scan" => calls[f].visited = UpTo(calls[f].i)
        /\ calls[f].pc \in {"splice", "returned"} =>
               calls[f].visited = UpTo(Len(Split(calls[f].content)))
        /\ calls[f].pc = "splice" =>
               calls[f].splices + calls[f].k = Len(calls[f].code_blocks)
        /\ calls[f].pc = "returned" =>
               calls[f].splices =
                   IF calls[f].method = "convert_to_fenced_blocks"
                   THEN Len(DetectIndentedCodeBlocks(calls[f].content))
                   ELSE 0

C20_AllReturned == \A f \in DOMAIN calls : calls[f].pc = "returned"

C20_Termination == []C20_SinglePass /\ <>C20_AllReturned

\* both calls have returned, the first after three lines and two splices
C20_Witness ==
    /\ Len(calls) = 2
    /\ C20_AllReturned
    /\ calls[1].method = "convert_to_fenced_blocks"
    /\ calls[1].visited = <<0, 1, 2>>
    /\ calls[1].splices = 2
    /\ calls[2].method = "detect_indented_code_blocks"
    /\ Len(calls[2].visited) = 2

(***************************************************************************)
(* C21  Scanner invariant: between two iterations of the scan a block is   *)
(* open only while the fence state is false, the lines accumulated are the *)
(* lines from current_block_start to the line before the next one, and at *)
(* the end of the document an open block is finalized whatever the fence   *)
(* state.                                                                  *)
(***************************************************************************)
C21_ScannerInvariant ==
    \A f \in DOMAIN calls :
        calls[f].pc = "scan" =>
            LET st == calls[f].st
            IN  /\ st.current_block_start # None => ~st.in_fenced_block
                /\ st.current_block_start # None =>
                       /\ 0 <= st.current_block_start
                       /\ st.current_block_start < calls[f].i
                       /\ st.current_block_lines =
                              SubSeq(calls[f].lines,
                                     st.current_block_start + 1, calls[f].i)
                /\ st.current_block_start = None => st.current_block_lines = << >>
                /\ ScanEnd(st) =
                       IF st.current_block_start # None
                       THEN Finalize(st) ELSE st.code_blocks

\* the first call is inside a fence that has dropped an open block, and the
\* second is at the end of its document with a block open
C21_Witness ==
    /\ Len(calls) = 2
    /\ calls[1].pc = "scan"
    /\ calls[1].i = 2
    /\ IsIndented(calls[1].lines[1])
    /\ calls[1].st.in_fenced_block
    /\ calls[1].st.current_block_start = None
    /\ calls[2].pc = "scan"
    /\ calls[2].i = Len(calls[2].lines)
    /\ calls[2].st.current_block_start = 2

(***************************************************************************)
(* C22  Line-count law: the output of convert_to_fenced_blocks has the     *)
(* lines of the input plus two for each span detected; it differs from the *)
(* input exactly when a span is detected; and process_file returns True    *)
(* for a file it can read and write exactly when the dry run reports a     *)
(* block for the same text.                                                *)
(***************************************************************************)
\* process_file has read the file and no write of it has failed
ReadAndWritable == pf # NoCall /\ pf.read_ok /\ pf.write \in {"ok", "none"}

C22_LineCountLaw ==
    /\ (pf # NoCall /\ pf.read_ok) =>
           LET spans == DetectIndentedCodeBlocks(pf.original_content)
           IN  /\ Len(Split(pf.converted_content)) =
                      Len(Split(pf.original_content)) + 2 * Len(spans)
               /\ (pf.converted_content # pf.original_content) <=> Len(spans) > 0
               /\ ReadAndWritable => (pf.ret <=> Len(spans) > 0)
    /\ (ReadAndWritable /\ op = "dry_run" /\ ~ret.raised /\ content = pf.before) =>
           (pf.ret <=> Len(ret.code_blocks) > 0)

\* the dry run has reported two blocks for the file and process_file has
\* then converted it
C22_Witness ==
    /\ ReadAndWritable
    /\ op = "dry_run"
    /\ ~ret.raised
    /\ content = pf.before
    /\ Len(ret.code_blocks) = 2
    /\ pf.ret
    /\ files = <<pf.converted_content>>
    /\ Len(Split(files[1])) = 7

(***************************************************************************)
(* C23  Fence pairing: no line of a span is a fence marker line; in the    *)
(* output the fence line put before a span is closed by the fence line put *)
(* after it; and a scan of the output meets every line that is outside the *)
(* spans with the fence state the scan of the input met it with.           *)
(***************************************************************************)
\* in_fenced_block when the scan of lines comes to line i
FenceStateAt(lines, fm, i) == ScanTo(lines, i, fm).in_fenced_block

C23_FencePairing ==
    op = "convert_to_fenced_blocks" =>
        LET lines == Split(content)
            fm == DetectFrontmatterBoundaries(content)
            spans == DetectIndentedCodeBlocks(content)
            out == Split(ret)
            fmo == DetectFrontmatterBoundaries(ret)
        IN  /\ \A k \in 1..Len(spans) :
                   /\ \A m \in spans[k][1]..spans[k][2] :
                          ~TripleBacktick(lines[m + 1])
                   /\ FencedAlone(spans, out, k)
                   /\ LET open == OutIndex(spans, spans[k][1])
                          close == open + (spans[k][2] - spans[k][1]) + 2
                      IN  /\ ~FenceStateAt(out, fmo, open)
                          /\ \A m \in (open + 1)..close : FenceStateAt(out, fmo, m)
                          /\ ~FenceStateAt(out, fmo, close + 1)
            /\ fmo = fm
            /\ \A i \in 0..(Len(lines) - 1) :
                   ~InSomeSpan(spans, i) =>
                       /\ KeptAsIs(lines, spans, out, i)
                       /\ FenceStateAt(out, fmo, OutIndex(spans, i))
                              = FenceStateAt(lines, fm, i)

\* after a block that is converted, an indented fence marker line opens a
\* fence and the line after it is inside the fence
C23_Witness ==
    /\ op = "convert_to_fenced_blocks"
    /\ LET lines == Split(content)
           fm == DetectFrontmatterBoundaries(content)
           spans == DetectIndentedCodeBlocks(content)
       IN  /\ Len(spans) = 1
           /\ \E i \in (spans[1][2] + 1)..(Len(lines) - 2) :
                  /\ lines[i + 1] = S4 \o Fence
                  /\ ~FenceStateAt(lines, fm, i)
                  /\ FenceStateAt(lines, fm, i + 1)
                  /\ IsIndented(lines[i + 2])

====
